---------------------------- MODULE Spec2Model ----------------------------
(***************************************************************************)
(* A model of the chat-history emission pipeline (src/agent.py:            *)
(* add_to_chat_history, get_chat_history, clear_chat_history,              *)
(* get_owner_address, generate_erc721_yul_contract, pulse_button) and of   *)
(* the heartbeat (src/mashcook_agent.py: spice_sync_pulse).                *)
(*                                                                         *)
(* Strings whose characters matter (owner addresses) are sequences of      *)
(* one-character strings.  Points in time are natural numbers: the         *)
(* emission pipeline counts clock ticks (TicksPerSecond of them make one   *)
(* second, the resolution of a file name), the heartbeat counts seconds.   *)
(*                                                                         *)
(* Three specifications share the variables:                               *)
(*   Spec           the chat log and the emission (pulse_button)           *)
(*   HeartbeatSpec  spice_sync_pulse and the passing of time               *)
(*   ValidatorSpec  the owner normalization applied to bounded inputs      *)
(***************************************************************************)
EXTENDS Integers, Sequences, FiniteSets, TLC

VARIABLES
    clock,              \* the last reading of datetime.now(), in ticks
    chat_history,       \* agent.py _chat_history
    env_owner,          \* os.environ ERC721_OWNER_ADDRESS ("" when unset)
    core_json,          \* the file core.json: NoCore, or its "owner" value
    files,              \* the output directory: file name -> content
    call,               \* the last handler invoked, with its arguments
    result,             \* what the last pulse_button call returned
    calls,              \* number of handler calls made so far
    hb_clock,           \* time.time() of the heartbeat, in seconds
    last_pulse_time,    \* mashcook_agent.py _last_pulse_time
    pulse_failures,     \* mashcook_agent.py _pulse_failures
    hb_trace,           \* the statuses spice_sync_pulse returned, in order
    v_raw,              \* validator input
    v_pc,               \* validator position: "start", "once", "twice"
    v_first,            \* outcome of validating v_raw
    v_second,           \* outcome of validating the first outcome's value
    v_hex,              \* the owner literal rendered from the first outcome
    view,               \* the list a caller holds from get_chat_history
    session_messages,   \* ui.py st.session_state.messages, per session
    chat_history_loaded, \* ui.py st.session_state.chat_history_loaded
    api_key_set,        \* ui.py st.session_state.api_key_set
    notices,            \* what the generate button handler showed, per session
    compose,            \* two compositions of one input and their outputs
    th,                 \* the position and locals of each thread in spice_sync_pulse
    race_pre            \* the heartbeat state when the concurrent calls began

emit_vars == <<clock, chat_history, env_owner, core_json, files, call, result, calls>>

hb_vars == <<hb_clock, last_pulse_time, pulse_failures, hb_trace>>

v_vars == <<v_raw, v_pc, v_first, v_second, v_hex>>

ui_vars == <<session_messages, chat_history_loaded, api_key_set, notices>>

race_vars == <<th, race_pre>>

aux_vars == <<compose, th, race_pre>>

caller_vars == <<view, session_messages, chat_history_loaded, api_key_set, notices, compose, th, race_pre>>

vars == <<clock, chat_history, env_owner, core_json, files, call, result, calls, hb_clock, last_pulse_time, pulse_failures, hb_trace, v_raw, v_pc, v_first, v_second, v_hex, view, session_messages, chat_history_loaded, api_key_set, notices, compose, th, race_pre>>

(***************************************************************************)
(* Bounds                                                                  *)
(***************************************************************************)
MaxRawLen == 44

MaxClock == 2

MaxCalls == 2

\* calls made in a run of repeated emissions
MaxRepeatCalls == 3

\* calls made by a caller that keeps the list get_chat_history returned
MaxCopyCalls == 3

\* events handled by the web UI
MaxUiCalls == 4

\* appends and clears made while the wall clock may be set back
MaxWallCalls == 3

\* serial heartbeat calls made before two threads call concurrently
MaxRacePrior == 2

MaxHbClock == 24

MaxHbCalls == 6

(***************************************************************************)
(* Program constants                                                       *)
(***************************************************************************)
AddressLength == 42

PaddedHexLength == 64

PulseTolerance == 10

CriticalFailures == 3

TicksPerSecond == 2

(***************************************************************************)
(* Character strings                                                       *)
(***************************************************************************)
EmptyStr == << >>

Prefix0x == <<"0", "x">>

\* str.startswith("0x")
StartsWith0x(s) ==
    /\ Len(s) >= 2
    /\ s[1] = "0"
    /\ s[2] = "x"

\* n copies of the character c
Repeat(c, n) == [i \in 1..n |-> c]

\* s[2:]
DropTwo(s) == IF Len(s) <= 2 THEN EmptyStr ELSE SubSeq(s, 3, Len(s))

\* str.zfill(width): zeros go to the left, but after a leading sign
ZFill(s, width) ==
    IF Len(s) >= width THEN s
    ELSE IF Len(s) > 0 /\ s[1] \in {"+", "-"}
         THEN <<s[1]>> \o Repeat("0", width - Len(s)) \o Tail(s)
         ELSE Repeat("0", width - Len(s)) \o s

(***************************************************************************)
(* Owner normalization and validation, agent.py lines 119-124              *)
(***************************************************************************)
NormalizeOwnerAlwaysPrefix(owner_address) == Prefix0x \o owner_address

\* if not owner_address.startswith("0x"): owner_address = "0x" + owner_address
NormalizeOwner(owner_address) ==
    IF StartsWith0x(owner_address) THEN owner_address
    ELSE Prefix0x \o owner_address

OwnerLengthValidAlways(owner_address) == TRUE

OwnerLengthValidAtLeast(owner_address) == Len(owner_address) >= AddressLength

\* the negation of: if len(owner_address) != 42: raise ValueError
OwnerLengthValid(owner_address) == Len(owner_address) = AddressLength

\* the two steps together: the normalized string, and whether it passed
ValidateOwner(raw) ==
    LET owner_address == NormalizeOwner(raw)
    IN  [ok |-> OwnerLengthValid(owner_address), value |-> owner_address]

(***************************************************************************)
(* ValidatorSpec: the owner validation applied once, then applied again to *)
(* its own result                                                          *)
(***************************************************************************)
RawPrefixes == {EmptyStr, Prefix0x, <<"0", "X">>, <<"x", "0">>}

FillChars == {"0", "x", "a", "Z", "+"}

\* every prefix followed by 0..MaxRawLen copies of one character, "" excluded
\* (an empty owner never reaches the validation, agent.py line 116)
RawOwners ==
    {p \o Repeat(c, n) : <<p, c, n>> \in RawPrefixes \X FillChars \X (0..MaxRawLen)}
        \ {EmptyStr}

NoOutcome == [ok |-> FALSE, value |-> EmptyStr]

VInit ==
    /\ v_raw \in RawOwners
    /\ v_pc = "start"
    /\ v_first = NoOutcome
    /\ v_second = NoOutcome
    /\ v_hex = EmptyStr

ValidateOnce ==
    /\ v_pc = "start"
    /\ v_first' = ValidateOwner(v_raw)
    /\ v_pc' = "once"
    /\ UNCHANGED <<v_raw, v_second, v_hex>>

ValidateAgain ==
    /\ v_pc = "once"
    /\ v_first.ok
    /\ v_second' = ValidateOwner(v_first.value)
    /\ v_pc' = "twice"
    /\ UNCHANGED <<v_raw, v_first, v_hex>>

(***************************************************************************)
(* HeartbeatSpec: spice_sync_pulse, mashcook_agent.py lines 39-69          *)
(***************************************************************************)
\* _last_pulse_time is None, or <<t>> for the recorded time t
None == << >>

HInit ==
    /\ hb_clock = 0
    /\ last_pulse_time = None
    /\ pulse_failures = 0
    /\ hb_trace = << >>

\* time passes between two calls
AdvanceTime ==
    /\ hb_clock < MaxHbClock
    /\ hb_clock' = hb_clock + 1
    /\ UNCHANGED <<last_pulse_time, pulse_failures, hb_trace>>

\* time.time() is the wall clock: the system may set it back between calls
ClockSetBack ==
    /\ hb_clock > 0
    /\ hb_clock' = hb_clock - 1
    /\ UNCHANGED <<last_pulse_time, pulse_failures, hb_trace>>

WithinToleranceStrict(time_since_last_pulse) == time_since_last_pulse < PulseTolerance

\* time_since_last_pulse <= 10.0
WithinTolerance(time_since_last_pulse) == time_since_last_pulse <= PulseTolerance

IsCriticalAbove(failures) == failures > CriticalFailures

\* _pulse_failures >= 3
IsCritical(failures) == failures >= CriticalFailures

PulseOutcomeInitUnrecorded(current_time, last, failures) ==
    IF last = None
    THEN [status |-> "Initialized", last |-> None, failures |-> 0]
    ELSE IF WithinTolerance(current_time - last[1])
         THEN [status |-> "OnTime", last |-> <<current_time>>, failures |-> 0]
         ELSE [status |-> IF IsCritical(failures + 1) THEN "Critical" ELSE "Late",
               last |-> last, failures |-> failures + 1]

PulseOutcomeLateRecords(current_time, last, failures) ==
    IF last = None
    THEN [status |-> "Initialized", last |-> <<current_time>>, failures |-> 0]
    ELSE IF WithinTolerance(current_time - last[1])
         THEN [status |-> "OnTime", last |-> <<current_time>>, failures |-> 0]
         ELSE [status |-> IF IsCritical(failures + 1) THEN "Critical" ELSE "Late",
               last |-> <<current_time>>, failures |-> failures + 1]

PulseOutcomeCriticalResets(current_time, last, failures) ==
    IF last = None
    THEN [status |-> "Initialized", last |-> <<current_time>>, failures |-> 0]
    ELSE IF WithinTolerance(current_time - last[1])
         THEN [status |-> "OnTime", last |-> <<current_time>>, failures |-> 0]
         ELSE IF IsCritical(failures + 1)
              THEN [status |-> "Critical", last |-> last, failures |-> 0]
              ELSE [status |-> "Late", last |-> last, failures |-> failures + 1]

PulseOutcomeCriticalRecalibrates(current_time, last, failures) ==
    IF last = None
    THEN [status |-> "Initialized", last |-> <<current_time>>, failures |-> 0]
    ELSE IF WithinTolerance(current_time - last[1])
         THEN [status |-> "OnTime", last |-> <<current_time>>, failures |-> 0]
         ELSE IF IsCritical(failures + 1)
              THEN [status |-> "Critical", last |-> <<current_time>>,
                    failures |-> failures + 1]
              ELSE [status |-> "Late", last |-> last, failures |-> failures + 1]

\* what one call returns and the state it leaves, from the state it finds
PulseOutcome(current_time, last, failures) ==
    IF last = None
    THEN [status |-> "Initialized", last |-> <<current_time>>, failures |-> 0]
    ELSE IF WithinTolerance(current_time - last[1])
         THEN [status |-> "OnTime", last |-> <<current_time>>, failures |-> 0]
         ELSE [status |-> IF IsCritical(failures + 1) THEN "Critical" ELSE "Late",
               last |-> last, failures |-> failures + 1]

\* hb_trace records, per call, whether the call came later than the tolerance
\* after the recorded signal, and what it returned (status, failure counter)
spice_sync_pulse ==
    /\ Len(hb_trace) < MaxHbCalls
    /\ LET current_time == hb_clock
           out == PulseOutcome(current_time, last_pulse_time, pulse_failures)
           exceeded == /\ last_pulse_time # None
                       /\ current_time - last_pulse_time[1] > PulseTolerance
       IN  /\ last_pulse_time' = out.last
           /\ pulse_failures' = out.failures
           /\ hb_trace' = Append(hb_trace,
                  [exceeded |-> exceeded, status |-> out.status,
                   failures |-> out.failures])
    /\ UNCHANGED hb_clock

(***************************************************************************)
(* spice_sync_pulse called by two threads at once.  A thread can be        *)
(* preempted between any two accesses to the module globals; one action    *)
(* per access (mashcook_agent.py 50-69).                                   *)
(***************************************************************************)
Threads == {1, 2}

ThreadIdle ==
    [pc |-> "idle", current_time |-> 0, time_since |-> 0, loaded |-> 0,
     status |-> "none", reported |-> 0]

RaceIdle ==
    /\ th = [t \in Threads |-> ThreadIdle]
    /\ race_pre = [last |-> None, failures |-> 0]

\* both threads enter the function
BeginRace ==
    /\ \A t \in Threads : th[t].pc = "idle"
    /\ th' = [t \in Threads |-> [ThreadIdle EXCEPT !.pc = "line50"]]
    /\ race_pre' = [last |-> last_pulse_time, failures |-> pulse_failures]
    /\ UNCHANGED hb_vars

\* current_time = time.time()
ReadClock(t) ==
    /\ th[t].pc = "line50"
    /\ th' = [th EXCEPT ![t].current_time = hb_clock, ![t].pc = "line52"]
    /\ UNCHANGED <<hb_vars, race_pre>>

\* if _last_pulse_time is None
TestNone(t) ==
    /\ th[t].pc = "line52"
    /\ th' = [th EXCEPT ![t].pc = IF last_pulse_time = None THEN "line53"
                                  ELSE "line57"]
    /\ UNCHANGED <<hb_vars, race_pre>>

\* _last_pulse_time = current_time
InitStoreTime(t) ==
    /\ th[t].pc = "line53"
    /\ last_pulse_time' = <<th[t].current_time>>
    /\ th' = [th EXCEPT ![t].pc = "line54"]
    /\ UNCHANGED <<hb_clock, pulse_failures, hb_trace, race_pre>>

\* _pulse_failures = 0; return
InitStoreFailures(t) ==
    /\ th[t].pc = "line54"
    /\ pulse_failures' = 0
    /\ th' = [th EXCEPT ![t].pc = "done", ![t].status = "Initialized"]
    /\ UNCHANGED <<hb_clock, last_pulse_time, hb_trace, race_pre>>

\* time_since_last_pulse = current_time - _last_pulse_time; if ... <= 10.0
ComputeElapsed(t) ==
    /\ th[t].pc = "line57"
    /\ LET time_since_last_pulse == th[t].current_time - last_pulse_time[1]
       IN  th' = [th EXCEPT ![t].time_since = time_since_last_pulse,
                            ![t].pc = IF WithinTolerance(time_since_last_pulse)
                                      THEN "line60" ELSE "line64load"]
    /\ UNCHANGED <<hb_vars, race_pre>>

\* _last_pulse_time = current_time
OnTimeStoreTime(t) ==
    /\ th[t].pc = "line60"
    /\ last_pulse_time' = <<th[t].current_time>>
    /\ th' = [th EXCEPT ![t].pc = "line61"]
    /\ UNCHANGED <<hb_clock, pulse_failures, hb_trace, race_pre>>

\* _pulse_failures = 0; return
OnTimeStoreFailures(t) ==
    /\ th[t].pc = "line61"
    /\ pulse_failures' = 0
    /\ th' = [th EXCEPT ![t].pc = "done", ![t].status = "OnTime"]
    /\ UNCHANGED <<hb_clock, last_pulse_time, hb_trace, race_pre>>

\* _pulse_failures += 1, first half: the global is loaded
LoadFailures(t) ==
    /\ th[t].pc = "line64load"
    /\ th' = [th EXCEPT ![t].loaded = pulse_failures, ![t].pc = "line64store"]
    /\ UNCHANGED <<hb_vars, race_pre>>

IncrementedAtomically(loaded) == pulse_failures + 1

\* what the second half of _pulse_failures += 1 stores: one more than the
\* value loaded
Incremented(loaded) == loaded + 1

\* _pulse_failures += 1, second half: the sum is stored
StoreFailures(t) ==
    /\ th[t].pc = "line64store"
    /\ pulse_failures' = Incremented(th[t].loaded)
    /\ th' = [th EXCEPT ![t].pc = "line65"]
    /\ UNCHANGED <<hb_clock, last_pulse_time, hb_trace, race_pre>>

\* if _pulse_failures >= 3
TestCritical(t) ==
    /\ th[t].pc = "line65"
    /\ th' = [th EXCEPT ![t].status = IF IsCritical(pulse_failures) THEN "Critical"
                                      ELSE "Late",
                        ![t].pc = "format"]
    /\ UNCHANGED <<hb_vars, race_pre>>

\* return f"... {_pulse_failures} ...": the global is read once more
FormatReport(t) ==
    /\ th[t].pc = "format"
    /\ th' = [th EXCEPT ![t].reported = pulse_failures, ![t].pc = "done"]
    /\ UNCHANGED <<hb_vars, race_pre>>

(***************************************************************************)
(* The emission pipeline, agent.py                                         *)
(***************************************************************************)
Roles == {"user", "assistant"}

Contents == {"Hi"}

Requests == {"", "mint this"}

DefaultDescription == "Minted chat history with agent"

\* the owner of the documented scenario, 40 characters without the prefix
BareOwner ==
    <<"4", "3", "E", "f", "2", "C", "d", "4", "7", "7", "1", "6", "f",
    "7", "f", "8", "3", "3", "B", "2", "f", "9", "0", "8", "7", "5", "C",
    "5", "9", "4", "5", "3", "0", "1", "3", "3", "e", "0", "e", "B">>

PrefixedOwner == Prefix0x \o BareOwner

ShortOwner == Prefix0x \o Repeat("a", 39)

LongOwner == Repeat("Z", 41)

\* the owner_address arguments a caller passes to pulse_button
OwnerArgs == {EmptyStr, BareOwner, ShortOwner, LongOwner}

\* core.json is absent (NoCore) or holds <<owner>>
NoCore == << >>

EnvOwners == {EmptyStr, BareOwner}

CoreFiles == {NoCore, <<EmptyStr>>, <<PrefixedOwner>>}

NoResult == [kind |-> "none"]

NoCall == [op |-> "none"]

\* datetime.isoformat(): the instant at full resolution
IsoFormat(t) == [second |-> t \div TicksPerSecond, fraction |-> t % TicksPerSecond]

\* datetime.strftime('%Y%m%d_%H%M%S'): the instant cut to its second
StrfTime(t) == t \div TicksPerSecond

\* json.dumps(doc, indent=2) and json.dump(doc, f, indent=2)
JsonDumps(doc) == [format |-> "json", indent |-> 2, doc |-> doc]

\* load_core_json: the file's content, or the default core with owner ""
load_core_json(core) ==
    IF core = NoCore THEN [owner |-> EmptyStr] ELSE [owner |-> core[1]]

\* get_owner_address: the environment variable first, then core.json
get_owner_address(env, core) ==
    IF env # EmptyStr THEN env ELSE load_core_json(core).owner

\* [msg for msg in chat_history if msg.get("role") == role]
FilterRoleReversed(history, role) ==
    LET kept == SelectSeq(history, LAMBDA msg : msg.role = role)
    IN  [i \in 1..Len(kept) |-> kept[Len(kept) + 1 - i]]

\* [msg for msg in chat_history if msg.get("role") == role]
FilterRole(history, role) == SelectSeq(history, LAMBDA msg : msg.role = role)

MinFirst(a, b) == a

\* min(len(user_messages), len(ai_responses))
Min(a, b) == IF a <= b THEN a ELSE b

\* the metadata dictionary, built at agent.py 131-145 and again at 309-323
Metadata(history, user_request, owner_address, t_mint) ==
    LET user_messages == FilterRole(history, "user")
        ai_responses == FilterRole(history, "assistant")
    IN  [name |-> "Chat History NFT",
         description |-> IF user_request # "" THEN user_request
                         ELSE DefaultDescription,
         chat_history |-> history,
         user_messages |-> user_messages,
         ai_responses |-> ai_responses,
         summary |-> [total_messages |-> Len(history),
                      user_messages_count |-> Len(user_messages),
                      ai_responses_count |-> Len(ai_responses),
                      conversation_pairs |->
                          Min(Len(user_messages), Len(ai_responses))],
         mint_timestamp |-> IsoFormat(t_mint),
         owner |-> owner_address]

\* owner_hex: "0x" + owner_address_clean.zfill(64)
OwnerHex(owner_address) ==
    LET owner_address_clean ==
            IF StartsWith0x(owner_address) THEN DropTwo(owner_address)
            ELSE owner_address
    IN  Prefix0x \o ZFill(owner_address_clean, PaddedHexLength)

\* the literal generate_erc721_yul_contract renders for the owner it has
\* validated (agent.py 150-151, 175)
RenderOwner ==
    /\ v_pc = "once"
    /\ v_first.ok
    /\ v_hex' = OwnerHex(v_first.value)
    /\ v_pc' = "rendered"
    /\ UNCHANGED <<v_raw, v_first, v_second>>

\* generate_erc721_yul_contract: the listing, or the ValueError it raises.
\* t_mint and t_gen are its two readings of the clock.
generate_erc721_yul_contract(history, user_request, owner_arg, env, core, t_mint, t_gen) ==
    LET configured == IF owner_arg = EmptyStr THEN get_owner_address(env, core)
                      ELSE owner_arg
        owner_address == NormalizeOwner(configured)
    IN  IF configured = EmptyStr
        THEN [raised |-> TRUE, exc |-> "ValueError", msg |-> "owner_not_set",
              owner |-> EmptyStr]
        ELSE IF ~OwnerLengthValid(owner_address)
        THEN [raised |-> TRUE, exc |-> "ValueError", msg |-> "invalid_format",
              owner |-> owner_address]
        ELSE [raised |-> FALSE,
              listing |->
                [owner_comment |-> owner_address,
                 generated |-> IsoFormat(t_gen),
                 owner_hex |-> OwnerHex(owner_address),
                 metadata_json |->
                     JsonDumps(Metadata(history, user_request, owner_address, t_mint))]]

WriteFileExclusive(fs, name, content) ==
    IF name \in {f.name : f \in fs} THEN fs
    ELSE fs \cup {[name |-> name, content |-> content]}

\* open(name, 'w') followed by a write: the file is created or replaced
WriteFile(fs, name, content) ==
    {f \in fs : f.name # name} \cup {[name |-> name, content |-> content]}

FileNames(fs) == {f.name : f \in fs}

CatchValueErrorOnly(exc, msg, detail) ==
    IF exc = "ValueError"
    THEN [kind |-> "config_error", msg |-> msg, detail |-> detail]
    ELSE [kind |-> "raised", msg |-> msg, detail |-> detail]

\* ValueError is reported as a configuration error, anything else as a
\* generation error (agent.py 349-352)
Catch(exc, msg, detail) ==
    IF exc = "ValueError"
    THEN [kind |-> "config_error", msg |-> msg, detail |-> detail]
    ELSE [kind |-> "error", msg |-> msg, detail |-> detail]

EmptyConversationNever(history) == FALSE

\* if not chat_history (agent.py 286)
EmptyConversation(history) == history = << >>

OwnerMissingNever(owner_address) == FALSE

\* if not owner_address (agent.py 293)
OwnerMissing(owner_address) == owner_address = EmptyStr

AfterFailureRollsBack(fs_before, fs_now) == fs_before

\* the except clauses only build the report (agent.py 349-352): whatever
\* the call wrote before the failure stays in the directory
AfterFailure(fs_before, fs_now) == fs_now

\* pulse_button on the log `history`, with the clock readings t[1..5] that
\* datetime.now() returns in call order and the outcomes w1, w2 of the two
\* open() calls (FALSE: open raises OSError and leaves the directory as it
\* is).  Gives the returned report, the directory, how many clock
\* readings and open() calls the call made, and the names it wrote.
PulseButton(history, user_request, owner_arg, env, core, fs, t, w1, w2) ==
    LET owner_address == IF owner_arg = EmptyStr THEN get_owner_address(env, core)
                         ELSE owner_arg
        gen == generate_erc721_yul_contract(history, user_request, owner_address,
                                            env, core, t[1], t[2])
        contract_filename == <<"ERC721_ChatHistory", StrfTime(t[3]), "yul">>
        fs1 == IF gen.raised THEN fs
               ELSE WriteFile(fs, contract_filename, gen.listing)
        metadata == Metadata(history, user_request, owner_address, t[4])
        metadata_filename == <<"metadata", StrfTime(t[5]), "json">>
        fs2 == WriteFile(fs1, metadata_filename, JsonDumps(metadata))
    IN  IF EmptyConversation(history)
        THEN [result |-> [kind |-> "empty"], files |-> fs, reads |-> 0, opens |-> 0, wrote |-> {}]
        ELSE IF OwnerMissing(owner_address)
        THEN [result |-> [kind |-> "owner_not_set"], files |-> fs,
              reads |-> 0, opens |-> 0, wrote |-> {}]
        ELSE IF gen.raised
        THEN [result |-> Catch(gen.exc, gen.msg, gen.owner), files |-> fs,
              reads |-> 0, opens |-> 0, wrote |-> {}]
        ELSE IF ~w1
        THEN [result |-> Catch("OSError", "open", contract_filename),
              files |-> AfterFailure(fs, fs), reads |-> 3, opens |-> 1, wrote |-> {}]
        ELSE IF ~w2
        THEN [result |-> Catch("OSError", "open", metadata_filename),
              files |-> AfterFailure(fs, fs1), reads |-> 5, opens |-> 2,
              wrote |-> {contract_filename}]
        ELSE [result |->
                [kind |-> "success",
                 contract_filename |-> contract_filename,
                 metadata_filename |-> metadata_filename,
                 owner |-> owner_address,
                 total |-> Len(history),
                 users |-> Len(FilterRole(history, "user")),
                 ais |-> Len(FilterRole(history, "assistant"))],
              files |-> fs2, reads |-> 5, opens |-> 2,
              wrote |-> {contract_filename, metadata_filename}]

\* non-decreasing clock readings from t0 on
Readings(t0) ==
    {t \in [1..5 -> t0..MaxClock] : \A i \in 1..4 : t[i] <= t[i + 1]}

\* a listing that an earlier run of the program left in the directory
OldFile ==
    [name |-> <<"ERC721_ChatHistory", 0, "yul">>,
     content |->
        [owner_comment |-> PrefixedOwner,
         generated |-> IsoFormat(0),
         owner_hex |-> OwnerHex(PrefixedOwner),
         metadata_json |->
            JsonDumps(Metadata(<<[role |-> "user", content |-> "Hello",
                                  timestamp |-> IsoFormat(0)]>>,
                               "", PrefixedOwner, 0))]]

\* the process starts with an empty log; the output directory is empty or
\* holds an artifact of an earlier run
Init ==
    /\ clock = 0
    /\ chat_history = << >>
    /\ env_owner \in EnvOwners
    /\ core_json \in CoreFiles
    /\ files \in {{}, {OldFile}}
    /\ call = NoCall
    /\ result = NoResult
    /\ calls = 0

AppendEntryDedup(history, role, content, now) ==
    IF \E i \in 1..Len(history) :
           history[i].role = role /\ history[i].content = content
    THEN history
    ELSE Append(history,
                [role |-> role, content |-> content, timestamp |-> IsoFormat(now)])

\* _chat_history.append({...}) (agent.py 82-86)
AppendEntry(history, role, content, now) ==
    Append(history,
           [role |-> role, content |-> content, timestamp |-> IsoFormat(now)])

\* the entry carries the reading datetime.now() returns, which is not
\* earlier than the last reading made
add_to_chat_history(role, content) ==
    /\ \E now \in clock..MaxClock :
         /\ chat_history' = AppendEntry(chat_history, role, content, now)
         /\ clock' = now
    /\ call' = [op |-> "add_to_chat_history", role |-> role, content |-> content]
    /\ calls' = calls + 1
    /\ UNCHANGED <<env_owner, core_json, files, result>>

\* datetime.now() is the local wall-clock time: between two calls it can be
\* set back (clock correction, end of daylight saving time)
WallClockSetBack ==
    /\ clock > 0
    /\ \E earlier \in 0..(clock - 1) : clock' = earlier
    /\ UNCHANGED <<chat_history, env_owner, core_json, files, call, result, calls>>

\* get_chat_history: _chat_history.copy()
get_chat_history == chat_history

clear_chat_history_pops ==
    /\ chat_history' = SubSeq(chat_history, 1, Len(chat_history) - 1)
    /\ call' = [op |-> "clear_chat_history"]
    /\ calls' = calls + 1
    /\ UNCHANGED <<clock, env_owner, core_json, files, result>>

clear_chat_history ==
    /\ chat_history' = << >>
    /\ call' = [op |-> "clear_chat_history"]
    /\ calls' = calls + 1
    /\ UNCHANGED <<clock, env_owner, core_json, files, result>>

\* the names a call wrote that were in the directory already: open(name, 'w')
\* truncates the file that is there
Overwritten(fs_before, wrote) == wrote \cap FileNames(fs_before)

LogAfterPulseCleared(history) == << >>

\* pulse_button reads the log through get_chat_history (agent.py 283) and
\* only builds new lists and strings from it (126-128, 305-323): the list
\* and its entries are as before
LogAfterPulse(history) == history

\* The clock readings and open() outcomes are the environment's; those the
\* call does not consult are not chosen (a reading not made equals the last
\* one made, an open() not attempted counts as TRUE).
pulse_button(user_request, owner_address) ==
    /\ \E t \in Readings(clock), w1, w2 \in BOOLEAN :
         \E out \in {PulseButton(get_chat_history, user_request, owner_address,
                                 env_owner, core_json, files, t, w1, w2)} :
           \E last \in {IF out.reads = 0 THEN clock ELSE t[out.reads]} :
             /\ \A i \in 1..5 : i > out.reads => t[i] = last
             /\ out.opens < 1 => w1
             /\ out.opens < 2 => w2
             /\ result' = out.result
             /\ files' = out.files
             /\ clock' = last
             /\ call' = [op |-> "pulse_button", user_request |-> user_request,
                         owner_address |-> owner_address,
                         opens |-> SubSeq(<<w1, w2>>, 1, out.opens),
                         overwrote |-> Overwritten(files, out.wrote)]
    /\ chat_history' = LogAfterPulse(chat_history)
    /\ calls' = calls + 1
    /\ UNCHANGED <<env_owner, core_json>>

(***************************************************************************)
(* generate_erc721_yul_contract called twice with the same arguments       *)
(* (agent.py 100-268)                                                      *)
(***************************************************************************)
ComposeLogs ==
    {<< >>,
     AppendEntry(<< >>, "user", "Hi", 0),
     AppendEntry(AppendEntry(<< >>, "user", "Hi", 0), "assistant", "Hi", 0)}

ComposeOwners == {EmptyStr, BareOwner, PrefixedOwner}

ComposeStart ==
    /\ compose \in {[pc |-> "start", history |-> h, user_request |-> r,
                     owner_address |-> o, first |-> << >>, second |-> << >>] :
                        h \in ComposeLogs, r \in Requests, o \in ComposeOwners}

\* one call: the arguments are the caller's; the environment variable, the
\* configuration file and the two readings of the clock (agent.py 144, 158)
\* are whatever they are when the call runs.  now is the first reading.
Composition(history, user_request, owner_address, env, core, t_mint, t_gen) ==
    [now |-> t_mint,
     out |-> generate_erc721_yul_contract(history, user_request, owner_address,
                                          env, core, t_mint, t_gen)]

ComposeOnce ==
    /\ compose.pc = "start"
    /\ \E env \in EnvOwners, core \in CoreFiles, t_mint \in 0..MaxClock :
         \E t_gen \in t_mint..MaxClock :
           compose' = [compose EXCEPT
                         !.pc = "once",
                         !.first = <<Composition(compose.history,
                                                 compose.user_request,
                                                 compose.owner_address,
                                                 env, core, t_mint, t_gen)>>]

ComposeAgain ==
    /\ compose.pc = "once"
    /\ \E env \in EnvOwners, core \in CoreFiles, t_mint \in 0..MaxClock :
         \E t_gen \in t_mint..MaxClock :
           compose' = [compose EXCEPT
                         !.pc = "twice",
                         !.second = <<Composition(compose.history,
                                                  compose.user_request,
                                                  compose.owner_address,
                                                  env, core, t_mint, t_gen)>>]

(***************************************************************************)
(* A caller that keeps what get_chat_history returned (agent.py 89-91)     *)
(***************************************************************************)
\* list.copy(): a new list whose elements are the entry objects of the log
\* themselves.  ref is the log position of the object an element refers to,
\* 0 for an object that is not in the log.
ShallowCopy(history) ==
    [i \in 1..Len(history) |-> [ref |-> i, entry |-> history[i]]]

\* _chat_history = [] binds the name to a new list (agent.py 97): the
\* objects the caller holds are in the log no longer
Detached(v) == [i \in 1..Len(v) |-> [ref |-> 0, entry |-> v[i].entry]]

\* entry[field] = value on a dict
SetField(entry, field, value) == [entry EXCEPT ![field] = value]

RemoveAt(v, k) == SubSeq(v, 1, k - 1) \o SubSeq(v, k + 1, Len(v))

caller_get_chat_history ==
    /\ view' = ShallowCopy(get_chat_history)
    /\ call' = [op |-> "get_chat_history"]
    /\ calls' = calls + 1
    /\ UNCHANGED <<clock, chat_history, env_owner, core_json, files, result>>

\* returned.append({...}): the caller's list grows, the log's list does not
caller_append ==
    /\ view' = Append(view, [ref |-> 0,
                             entry |-> [role |-> "user", content |-> "added",
                                        timestamp |-> IsoFormat(clock)]])
    /\ call' = [op |-> "caller_append"]
    /\ calls' = calls + 1
    /\ UNCHANGED <<clock, chat_history, env_owner, core_json, files, result>>

\* del returned[k]
caller_remove(k) ==
    /\ k \in 1..Len(view)
    /\ view' = RemoveAt(view, k)
    /\ call' = [op |-> "caller_remove"]
    /\ calls' = calls + 1
    /\ UNCHANGED <<clock, chat_history, env_owner, core_json, files, result>>

\* returned[k][field] = value: the dict is the one the log holds, if the log
\* still holds it
caller_set(k, field, value) ==
    /\ k \in 1..Len(view)
    /\ view' = [view EXCEPT ![k].entry = SetField(@, field, value)]
    /\ chat_history' =
         IF view[k].ref = 0 THEN chat_history
         ELSE [chat_history EXCEPT ![view[k].ref] = SetField(@, field, value)]
    /\ call' = [op |-> "caller_set", field |-> field]
    /\ calls' = calls + 1
    /\ UNCHANGED <<clock, env_owner, core_json, files, result>>

(***************************************************************************)
(* The web UI (ui.py): one script run per event of a browser session, all  *)
(* sessions in one process and so on one agent module                      *)
(***************************************************************************)
Sessions == {1, 2}

\* what the user of session s types, and what the provider answers to it
Prompt(s) == IF s = 1 THEN "prompt of 1" ELSE "prompt of 2"

Reply(s) == IF s = 1 THEN "reply to 1" ELSE "reply to 2"

ErrorMsg(s) == IF s = 1 THEN "error for 1" ELSE "error for 2"

\* ui.py 80-91
load_chat_history_to_session(messages, loaded, history) ==
    IF ~loaded
    THEN [messages |->
            [i \in 1..Len(history) |->
                [role |-> IF history[i].role = "user" THEN "user" ELSE "assistant",
                 content |-> history[i].content]],
          loaded |-> TRUE]
    ELSE [messages |-> messages, loaded |-> loaded]

\* ui.py 273-274
LoadIfInitialized(key_set, messages, loaded, history) ==
    IF key_set THEN load_chat_history_to_session(messages, loaded, history)
    ELSE [messages |-> messages, loaded |-> loaded]

\* the Initialize Agent button (ui.py 189-196, 93-101) and the script run
\* that st.rerun() starts
ui_initialize_agent(s) ==
    /\ ~api_key_set[s]
    /\ api_key_set' = [api_key_set EXCEPT ![s] = TRUE]
    /\ LET l == LoadIfInitialized(TRUE, session_messages[s],
                                  chat_history_loaded[s], get_chat_history)
       IN  /\ session_messages' = [session_messages EXCEPT ![s] = l.messages]
           /\ chat_history_loaded' = [chat_history_loaded EXCEPT ![s] = l.loaded]
    /\ call' = [op |-> "ui_initialize", session |-> s]
    /\ calls' = calls + 1
    /\ UNCHANGED <<clock, chat_history, env_owner, core_json, files, result, notices>>

\* a script run with a chat input (ui.py 273-325); replied is FALSE when the
\* provider call raises
ui_chat(s, replied) ==
    /\ api_key_set[s]
    /\ LET l == LoadIfInitialized(api_key_set[s], session_messages[s],
                                  chat_history_loaded[s], get_chat_history)
           shown == Append(l.messages, [role |-> "user", content |-> Prompt(s)])
       IN  /\ chat_history_loaded' = [chat_history_loaded EXCEPT ![s] = l.loaded]
           /\ \E now1 \in clock..MaxClock :
                LET logged == AppendEntry(chat_history, "user", Prompt(s), now1)
                IN  IF replied
                    THEN \E now2 \in now1..MaxClock :
                           /\ session_messages' =
                                [session_messages EXCEPT ![s] =
                                    Append(shown, [role |-> "assistant",
                                                   content |-> Reply(s)])]
                           /\ chat_history' =
                                AppendEntry(logged, "assistant", Reply(s), now2)
                           /\ clock' = now2
                    ELSE /\ session_messages' =
                                [session_messages EXCEPT ![s] =
                                    Append(shown, [role |-> "assistant",
                                                   content |-> ErrorMsg(s)])]
                         /\ chat_history' = logged
                         /\ clock' = now1
    /\ call' = [op |-> "ui_chat", session |-> s]
    /\ calls' = calls + 1
    /\ UNCHANGED <<env_owner, core_json, files, result, api_key_set, notices>>

\* the Clear Chat History button (ui.py 247-252) and the script run that
\* st.rerun() starts
ui_clear(s) ==
    /\ chat_history' = << >>
    /\ LET l == LoadIfInitialized(api_key_set[s], << >>, FALSE, << >>)
       IN  /\ session_messages' = [session_messages EXCEPT ![s] = l.messages]
           /\ chat_history_loaded' = [chat_history_loaded EXCEPT ![s] = l.loaded]
    /\ call' = [op |-> "ui_clear", session |-> s]
    /\ calls' = calls + 1
    /\ UNCHANGED <<clock, env_owner, core_json, files, result, api_key_set, notices>>

\* the Generate ERC721 Contract button (ui.py 255-267) and the rest of the
\* script run (273-274)
ui_generate(s) ==
    /\ LET owner_addr == get_owner_address(env_owner, core_json)
       IN  IF ~api_key_set[s]
           THEN /\ notices' = [notices EXCEPT ![s] = {"warning_initialize_first"}]
                /\ UNCHANGED <<clock, files, result>>
           ELSE IF owner_addr = EmptyStr
           THEN /\ notices' = [notices EXCEPT ![s] = {"error_set_owner"}]
                /\ UNCHANGED <<clock, files, result>>
           ELSE \E t \in Readings(clock), w1, w2 \in BOOLEAN :
                  \E out \in {PulseButton(get_chat_history, "", owner_addr,
                                          env_owner, core_json, files, t, w1, w2)} :
                    \E last \in {IF out.reads = 0 THEN clock ELSE t[out.reads]} :
                      /\ \A i \in 1..5 : i > out.reads => t[i] = last
                      /\ out.opens < 1 => w1
                      /\ out.opens < 2 => w2
                      /\ result' = out.result
                      /\ files' = out.files
                      /\ clock' = last
                      /\ notices' = [notices EXCEPT
                                        ![s] = {"success_contract_generated", "info_result"}]
    /\ LET l == LoadIfInitialized(api_key_set[s], session_messages[s],
                                  chat_history_loaded[s], get_chat_history)
       IN  /\ session_messages' = [session_messages EXCEPT ![s] = l.messages]
           /\ chat_history_loaded' = [chat_history_loaded EXCEPT ![s] = l.loaded]
    /\ call' = [op |-> "ui_generate", session |-> s]
    /\ calls' = calls + 1
    /\ UNCHANGED <<chat_history, env_owner, core_json, api_key_set>>

(***************************************************************************)
(* Values the variables of one specification keep while another runs       *)
(***************************************************************************)
EmitIdle ==
    /\ clock = 0
    /\ chat_history = << >>
    /\ env_owner = EmptyStr
    /\ core_json = NoCore
    /\ files = {}
    /\ call = NoCall
    /\ result = NoResult
    /\ calls = 0

HIdle == HInit

VIdle ==
    /\ v_raw = EmptyStr
    /\ v_pc = "idle"
    /\ v_first = NoOutcome
    /\ v_second = NoOutcome
    /\ v_hex = EmptyStr

CallerIdle ==
    /\ view = << >>
    /\ session_messages = [s \in Sessions |-> << >>]
    /\ chat_history_loaded = [s \in Sessions |-> FALSE]
    /\ api_key_set = [s \in Sessions |-> FALSE]
    /\ notices = [s \in Sessions |-> {}]
    /\ compose = [pc |-> "idle"]
    /\ RaceIdle

(***************************************************************************)
(* Specifications                                                          *)
(***************************************************************************)
HeartbeatInit == HInit /\ EmitIdle /\ VIdle /\ CallerIdle

HeartbeatNext ==
    \/ AdvanceTime /\ UNCHANGED emit_vars /\ UNCHANGED caller_vars /\ UNCHANGED v_vars
    \/ ClockSetBack /\ UNCHANGED emit_vars /\ UNCHANGED caller_vars /\ UNCHANGED v_vars
    \/ spice_sync_pulse /\ UNCHANGED emit_vars /\ UNCHANGED caller_vars /\ UNCHANGED v_vars

HeartbeatSpec == HeartbeatInit /\ [][HeartbeatNext]_vars

\* the heartbeat under a clock that is never set back
MonotoneHeartbeatNext ==
    \/ AdvanceTime /\ UNCHANGED emit_vars /\ UNCHANGED caller_vars /\ UNCHANGED v_vars
    \/ spice_sync_pulse /\ UNCHANGED emit_vars /\ UNCHANGED caller_vars /\ UNCHANGED v_vars

MonotoneHeartbeatSpec == HeartbeatInit /\ [][MonotoneHeartbeatNext]_vars

ValidatorInit == VInit /\ EmitIdle /\ HIdle /\ CallerIdle

ValidatorNext ==
    \/ ValidateOnce /\ UNCHANGED emit_vars /\ UNCHANGED caller_vars /\ UNCHANGED hb_vars
    \/ ValidateAgain /\ UNCHANGED emit_vars /\ UNCHANGED caller_vars /\ UNCHANGED hb_vars
    \/ RenderOwner /\ UNCHANGED emit_vars /\ UNCHANGED caller_vars /\ UNCHANGED hb_vars

ValidatorSpec == ValidatorInit /\ [][ValidatorNext]_vars

\* repeated emission in one configured deployment: the owner comes from the
\* environment and the output directory starts empty
RepeatInit ==
    /\ Init
    /\ env_owner = BareOwner
    /\ core_json = NoCore
    /\ files = {}
    /\ HIdle
    /\ VIdle
    /\ CallerIdle

RepeatNext ==
    \/ /\ calls < MaxRepeatCalls
       /\ \E role \in Roles : add_to_chat_history(role, "Hi")
       /\ UNCHANGED hb_vars /\ UNCHANGED v_vars /\ UNCHANGED caller_vars
    \/ /\ calls < MaxRepeatCalls
       /\ clear_chat_history
       /\ UNCHANGED hb_vars /\ UNCHANGED v_vars /\ UNCHANGED caller_vars
    \/ /\ calls < MaxRepeatCalls
       /\ \E user_request \in Requests : pulse_button(user_request, EmptyStr)
       /\ UNCHANGED hb_vars /\ UNCHANGED v_vars /\ UNCHANGED caller_vars

RepeatSpec == RepeatInit /\ [][RepeatNext]_vars

\* a caller of the agent module that keeps and changes the returned list
CopyInit ==
    /\ Init
    /\ env_owner = EmptyStr
    /\ core_json = NoCore
    /\ files = {}
    /\ HIdle
    /\ VIdle
    /\ CallerIdle

CopyNext ==
    \/ /\ calls < MaxCopyCalls
       /\ \E role \in Roles, content \in Contents : add_to_chat_history(role, content)
       /\ UNCHANGED view
       /\ UNCHANGED hb_vars /\ UNCHANGED v_vars /\ UNCHANGED ui_vars /\ UNCHANGED aux_vars
    \/ /\ calls < MaxCopyCalls
       /\ clear_chat_history
       /\ view' = Detached(view)
       /\ UNCHANGED hb_vars /\ UNCHANGED v_vars /\ UNCHANGED ui_vars /\ UNCHANGED aux_vars
    \/ /\ calls < MaxCopyCalls
       /\ caller_get_chat_history
       /\ UNCHANGED hb_vars /\ UNCHANGED v_vars /\ UNCHANGED ui_vars /\ UNCHANGED aux_vars
    \/ /\ calls < MaxCopyCalls
       /\ caller_append
       /\ UNCHANGED hb_vars /\ UNCHANGED v_vars /\ UNCHANGED ui_vars /\ UNCHANGED aux_vars
    \/ /\ calls < MaxCopyCalls
       /\ \E k \in 1..Len(view) : caller_remove(k)
       /\ UNCHANGED hb_vars /\ UNCHANGED v_vars /\ UNCHANGED ui_vars /\ UNCHANGED aux_vars
    \/ /\ calls < MaxCopyCalls
       /\ \E k \in 1..Len(view) :
            \/ caller_set(k, "role", "assistant")
            \/ caller_set(k, "content", "edited")
            \/ caller_set(k, "timestamp", IsoFormat(MaxClock))
       /\ UNCHANGED hb_vars /\ UNCHANGED v_vars /\ UNCHANGED ui_vars /\ UNCHANGED aux_vars

CopySpec == CopyInit /\ [][CopyNext]_vars

\* two browser sessions on one server process
UiInit ==
    /\ clock = 0
    /\ chat_history = << >>
    /\ env_owner \in {EmptyStr, BareOwner, LongOwner}
    /\ core_json = NoCore
    /\ files = {}
    /\ call = NoCall
    /\ result = NoResult
    /\ calls = 0
    /\ HIdle
    /\ VIdle
    /\ CallerIdle

UiNext ==
    \/ /\ calls < MaxUiCalls
       /\ \E s \in Sessions : ui_initialize_agent(s)
       /\ UNCHANGED hb_vars /\ UNCHANGED v_vars /\ UNCHANGED view /\ UNCHANGED aux_vars
    \/ /\ calls < MaxUiCalls
       /\ \E s \in Sessions, replied \in BOOLEAN : ui_chat(s, replied)
       /\ UNCHANGED hb_vars /\ UNCHANGED v_vars /\ UNCHANGED view /\ UNCHANGED aux_vars
    \/ /\ calls < MaxUiCalls
       /\ \E s \in Sessions : ui_clear(s)
       /\ UNCHANGED hb_vars /\ UNCHANGED v_vars /\ UNCHANGED view /\ UNCHANGED aux_vars
    \/ /\ calls < MaxUiCalls
       /\ \E s \in Sessions : ui_generate(s)
       /\ UNCHANGED hb_vars /\ UNCHANGED v_vars /\ UNCHANGED view /\ UNCHANGED aux_vars

UiSpec == UiInit /\ [][UiNext]_vars

\* the log under a wall clock that can be set back between calls
WallClockNext ==
    \/ /\ calls < MaxWallCalls
       /\ \E role \in Roles, content \in Contents : add_to_chat_history(role, content)
       /\ UNCHANGED hb_vars /\ UNCHANGED v_vars /\ UNCHANGED caller_vars
    \/ /\ calls < MaxWallCalls
       /\ clear_chat_history
       /\ UNCHANGED hb_vars /\ UNCHANGED v_vars /\ UNCHANGED caller_vars
    \/ /\ WallClockSetBack
       /\ UNCHANGED hb_vars /\ UNCHANGED v_vars /\ UNCHANGED caller_vars

WallClockSpec == CopyInit /\ [][WallClockNext]_vars

\* two compositions of the same arguments
ComposeInit ==
    /\ ComposeStart
    /\ EmitIdle
    /\ HIdle
    /\ VIdle
    /\ view = << >>
    /\ session_messages = [s \in Sessions |-> << >>]
    /\ chat_history_loaded = [s \in Sessions |-> FALSE]
    /\ api_key_set = [s \in Sessions |-> FALSE]
    /\ notices = [s \in Sessions |-> {}]
    /\ RaceIdle

ComposeNext ==
    \/ /\ ComposeOnce
       /\ UNCHANGED emit_vars /\ UNCHANGED hb_vars /\ UNCHANGED v_vars
       /\ UNCHANGED view /\ UNCHANGED ui_vars /\ UNCHANGED race_vars
    \/ /\ ComposeAgain
       /\ UNCHANGED emit_vars /\ UNCHANGED hb_vars /\ UNCHANGED v_vars
       /\ UNCHANGED view /\ UNCHANGED ui_vars /\ UNCHANGED race_vars

ComposeSpec == ComposeInit /\ [][ComposeNext]_vars

\* serial calls, then two threads in spice_sync_pulse at once; the racing
\* calls read the clock within the same tick
RaceNext ==
    \/ /\ \A t \in Threads : th[t].pc = "idle"
       /\ AdvanceTime
       /\ UNCHANGED race_vars
       /\ UNCHANGED emit_vars /\ UNCHANGED v_vars /\ UNCHANGED view
       /\ UNCHANGED ui_vars /\ UNCHANGED compose
    \/ /\ \A t \in Threads : th[t].pc = "idle"
       /\ Len(hb_trace) < MaxRacePrior
       /\ spice_sync_pulse
       /\ UNCHANGED race_vars
       /\ UNCHANGED emit_vars /\ UNCHANGED v_vars /\ UNCHANGED view
       /\ UNCHANGED ui_vars /\ UNCHANGED compose
    \/ /\ BeginRace
       /\ UNCHANGED emit_vars /\ UNCHANGED v_vars /\ UNCHANGED view
       /\ UNCHANGED ui_vars /\ UNCHANGED compose
    \/ /\ \E t \in Threads : ReadClock(t)
       /\ UNCHANGED emit_vars /\ UNCHANGED v_vars /\ UNCHANGED view
       /\ UNCHANGED ui_vars /\ UNCHANGED compose
    \/ /\ \E t \in Threads : TestNone(t)
       /\ UNCHANGED emit_vars /\ UNCHANGED v_vars /\ UNCHANGED view
       /\ UNCHANGED ui_vars /\ UNCHANGED compose
    \/ /\ \E t \in Threads : InitStoreTime(t)
       /\ UNCHANGED emit_vars /\ UNCHANGED v_vars /\ UNCHANGED view
       /\ UNCHANGED ui_vars /\ UNCHANGED compose
    \/ /\ \E t \in Threads : InitStoreFailures(t)
       /\ UNCHANGED emit_vars /\ UNCHANGED v_vars /\ UNCHANGED view
       /\ UNCHANGED ui_vars /\ UNCHANGED compose
    \/ /\ \E t \in Threads : ComputeElapsed(t)
       /\ UNCHANGED emit_vars /\ UNCHANGED v_vars /\ UNCHANGED view
       /\ UNCHANGED ui_vars /\ UNCHANGED compose
    \/ /\ \E t \in Threads : OnTimeStoreTime(t)
       /\ UNCHANGED emit_vars /\ UNCHANGED v_vars /\ UNCHANGED view
       /\ UNCHANGED ui_vars /\ UNCHANGED compose
    \/ /\ \E t \in Threads : OnTimeStoreFailures(t)
       /\ UNCHANGED emit_vars /\ UNCHANGED v_vars /\ UNCHANGED view
       /\ UNCHANGED ui_vars /\ UNCHANGED compose
    \/ /\ \E t \in Threads : LoadFailures(t)
       /\ UNCHANGED emit_vars /\ UNCHANGED v_vars /\ UNCHANGED view
       /\ UNCHANGED ui_vars /\ UNCHANGED compose
    \/ /\ \E t \in Threads : StoreFailures(t)
       /\ UNCHANGED emit_vars /\ UNCHANGED v_vars /\ UNCHANGED view
       /\ UNCHANGED ui_vars /\ UNCHANGED compose
    \/ /\ \E t \in Threads : TestCritical(t)
       /\ UNCHANGED emit_vars /\ UNCHANGED v_vars /\ UNCHANGED view
       /\ UNCHANGED ui_vars /\ UNCHANGED compose
    \/ /\ \E t \in Threads : FormatReport(t)
       /\ UNCHANGED emit_vars /\ UNCHANGED v_vars /\ UNCHANGED view
       /\ UNCHANGED ui_vars /\ UNCHANGED compose

RaceSpec == HeartbeatInit /\ [][RaceNext]_vars

EmitInit == Init /\ HIdle /\ VIdle /\ CallerIdle

Next ==
    \/ /\ calls < MaxCalls
       /\ \E role \in Roles, content \in Contents :
            add_to_chat_history(role, content)
       /\ UNCHANGED hb_vars /\ UNCHANGED v_vars /\ UNCHANGED caller_vars
    \/ /\ calls < MaxCalls
       /\ clear_chat_history
       /\ UNCHANGED hb_vars /\ UNCHANGED v_vars /\ UNCHANGED caller_vars
    \/ /\ calls < MaxCalls
       /\ \E user_request \in Requests, owner_address \in OwnerArgs :
            pulse_button(user_request, owner_address)
       /\ UNCHANGED hb_vars /\ UNCHANGED v_vars /\ UNCHANGED caller_vars

Spec == EmitInit /\ [][Next]_vars

(***************************************************************************)
(* Properties                                                              *)
(***************************************************************************)
\* a step that is one call of pulse_button
PulseStep == calls' = calls + 1 /\ call'.op = "pulse_button"

\* the owner a call works with: its argument, else the environment
\* variable, else the owner of core.json, else none
EffectiveOwner(owner_arg) ==
    IF owner_arg # EmptyStr THEN owner_arg
    ELSE IF env_owner # EmptyStr THEN env_owner
    ELSE IF core_json = NoCore THEN EmptyStr
    ELSE core_json[1]

\* the length of what follows the prefix "0x", or of the whole string when
\* it has no such prefix
PayloadLength(raw) == IF StartsWith0x(raw) THEN Len(raw) - 2 ELSE Len(raw)

PayloadOf(raw) == IF StartsWith0x(raw) THEN SubSeq(raw, 3, Len(raw)) ELSE raw

CountRole(history, role) ==
    Cardinality({i \in DOMAIN history : history[i].role = role})

FileContent(fs, name) == (CHOOSE f \in fs : f.name = name).content

\* C1: pulse_button on an empty log returns the empty-conversation warning
\* and leaves the output directory untouched, whatever the owner argument
\* and the owner configuration are.
C1_EmptyLogWarnsAndWritesNothing ==
    [][(PulseStep /\ chat_history = << >>)
         => (result'.kind = "empty" /\ files' = files)]_vars

\* C1 witness: an empty log and no owner anywhere, reported as empty
\* conversation, with an artifact of an earlier run still in the directory.
C1_Witness ==
    /\ call.op = "pulse_button"
    /\ chat_history = << >>
    /\ EffectiveOwner(call.owner_address) = EmptyStr
    /\ result.kind = "empty"
    /\ files = {OldFile}

\* C2: pulse_button on a non-empty log with an empty owner argument and no
\* owner in the environment variable or core.json returns the
\* owner-not-configured message and leaves the output directory untouched.
C2_NoOwnerWarnsAndWritesNothing ==
    [][(/\ PulseStep
        /\ chat_history # << >>
        /\ call'.owner_address = EmptyStr
        /\ env_owner = EmptyStr
        /\ (core_json = NoCore \/ core_json[1] = EmptyStr))
         => (result'.kind = "owner_not_set" /\ files' = files)]_vars

\* C2 witness: such a call happened, core.json present with an empty owner.
C2_Witness ==
    /\ call.op = "pulse_button"
    /\ call.owner_address = EmptyStr
    /\ chat_history # << >>
    /\ env_owner = EmptyStr
    /\ core_json = <<EmptyStr>>
    /\ result.kind = "owner_not_set"
    /\ files = {OldFile}

C4_ReportAndFileCarryValidatedOwner ==
    (call.op = "pulse_button" /\ result.kind = "success")
        => LET validated == Prefix0x \o PayloadOf(EffectiveOwner(call.owner_address))
           IN  /\ result.owner = validated
               /\ FileContent(files, result.metadata_filename).doc.owner = validated

C6_NormalizationIdempotent ==
    v_pc = "twice" => (v_second.ok /\ v_second.value = v_first.value)

\* C6 witness: a raw owner without the prefix was validated twice.
C6_Witness ==
    /\ v_pc = "twice"
    /\ ~StartsWith0x(v_raw)
    /\ v_second.ok
    /\ v_second.value = Prefix0x \o v_raw

\* C7: a non-empty raw owner is accepted exactly when its payload (what
\* follows "0x", or the whole string when the prefix is missing) has 40
\* characters, whatever the characters are.
C7_AcceptedIffPayloadIs40 ==
    v_pc \in {"once", "twice"}
        => /\ v_first.ok <=> PayloadLength(v_raw) = 40
           /\ v_first.value = Prefix0x \o PayloadOf(v_raw)

\* C7 witness: a payload of 40 non-hexadecimal characters was accepted.
C7_Witness ==
    /\ v_pc = "once"
    /\ v_raw = Prefix0x \o Repeat("Z", 40)
    /\ v_first.ok

\* a step that is one call of spice_sync_pulse
HeartbeatStep == Len(hb_trace') = Len(hb_trace) + 1

LastStatus == hb_trace[Len(hb_trace)]

\* C8: the first spice_sync_pulse call of a process returns Initialized,
\* records the current time as the last signal time and sets the failure
\* counter to 0.
C8_FirstCallInitializes ==
    [][(HeartbeatStep /\ hb_trace = << >>)
         => /\ last_pulse_time = None
            /\ hb_trace'[1].status = "Initialized"
            /\ last_pulse_time' = <<hb_clock>>
            /\ pulse_failures' = 0]_vars

\* C8 witness: one call was made, at a time other than 0.
C8_Witness ==
    /\ Len(hb_trace) = 1
    /\ hb_trace[1].status = "Initialized"
    /\ last_pulse_time # None
    /\ last_pulse_time[1] > 0

\* C9: a call made with a recorded signal no more than 10 seconds old
\* (10 included) returns OnTime, records the current time and resets the
\* failure counter to 0; the counter is never negative.
C9_OnTimeWithinTolerance ==
    /\ [][(/\ HeartbeatStep
           /\ last_pulse_time # None
           /\ hb_clock - last_pulse_time[1] <= 10)
            => /\ hb_trace'[Len(hb_trace')].status = "OnTime"
               /\ last_pulse_time' = <<hb_clock>>
               /\ pulse_failures' = 0]_vars
    /\ [](pulse_failures >= 0)

\* C9 witness: an on-time call right after a late one (the clock was set
\* back in between), which reset a counter that was not 0.
C9_Witness ==
    \E i \in 1..(Len(hb_trace) - 1) :
        /\ hb_trace[i].status = "Late"
        /\ hb_trace[i].failures > 0
        /\ hb_trace[i + 1].status = "OnTime"
        /\ hb_trace[i + 1].failures = 0
        /\ i + 1 = Len(hb_trace)
        /\ pulse_failures = 0

\* calls i, i+1, i+2 each came later than the tolerance after the recorded
\* signal, and call i found a recorded signal and the counter at 0
ThreeLateFrom(i) ==
    /\ i > 1
    /\ i + 2 <= Len(hb_trace)
    /\ hb_trace[i - 1].failures = 0
    /\ \A k \in i..(i + 2) : hb_trace[k].exceeded

\* C10: from a recorded signal and counter 0, three consecutive calls that
\* each exceed the tolerance return Late, Late, Critical in that order,
\* with the counter at 1, 2, 3.
C10_LateLateCritical ==
    \A i \in 1..Len(hb_trace) :
        ThreeLateFrom(i)
            => /\ <<hb_trace[i].status, hb_trace[i + 1].status, hb_trace[i + 2].status>>
                   = <<"Late", "Late", "Critical">>
               /\ <<hb_trace[i].failures, hb_trace[i + 1].failures, hb_trace[i + 2].failures>>
                   = <<1, 2, 3>>

\* C10 witness: three such calls were made after an on-time call.
C10_Witness ==
    \E i \in 1..Len(hb_trace) :
        /\ ThreeLateFrom(i)
        /\ hb_trace[i - 1].status = "OnTime"
        /\ pulse_failures = 3

\* C11: a call classified Late or Critical leaves the last signal time as
\* it was; the last signal time changes only in a call that returns
\* Initialized or OnTime.
C11_LateKeepsAnchor ==
    [][/\ (HeartbeatStep /\ hb_trace'[Len(hb_trace')].status \in {"Late", "Critical"})
           => last_pulse_time' = last_pulse_time
       /\ last_pulse_time' # last_pulse_time
           => (HeartbeatStep
               /\ hb_trace'[Len(hb_trace')].status \in {"Initialized", "OnTime"})]_vars

\* C11 witness: a late call was made at a time other than the recorded one,
\* and the recorded time is still more than the tolerance in the past.
C11_Witness ==
    /\ hb_trace # << >>
    /\ LastStatus.status = "Late"
    /\ last_pulse_time # None
    /\ hb_clock - last_pulse_time[1] > PulseTolerance

\* C19: a late signal returns Critical exactly when the counter it has just
\* incremented is at least 3, and Late when that counter is 1 or 2; Critical
\* does not reset the counter, which goes on to 4, 5, ...
C19_CriticalFromThreeOn ==
    [][(HeartbeatStep /\ hb_trace'[Len(hb_trace')].exceeded)
         => /\ pulse_failures' = pulse_failures + 1
            /\ hb_trace'[Len(hb_trace')].failures = pulse_failures'
            /\ hb_trace'[Len(hb_trace')].status
                   = IF pulse_failures' >= CriticalFailures THEN "Critical" ELSE "Late"]_vars

\* C19 witness: Critical was returned with the counter at 4 and again at 5.
C19_Witness ==
    /\ Len(hb_trace) >= 2
    /\ hb_trace[Len(hb_trace) - 1].status = "Critical"
    /\ hb_trace[Len(hb_trace) - 1].failures = 4
    /\ LastStatus.status = "Critical"
    /\ pulse_failures = 5

\* C20: under a clock that is never set back, once a call has been
\* classified late every later call is Late or Critical, the last signal
\* time never changes again and the failure counter never returns to 0.
C20_LatenessAbsorbing ==
    [][pulse_failures > 0
         => /\ pulse_failures' > 0
            /\ last_pulse_time' = last_pulse_time
            /\ HeartbeatStep
                 => hb_trace'[Len(hb_trace')].status \in {"Late", "Critical"}]_vars

\* C20 witness: a late call followed by two further calls, none on time.
C20_Witness ==
    \E i \in 1..Len(hb_trace) :
        /\ i + 2 <= Len(hb_trace)
        /\ hb_trace[i].status = "Late"
        /\ hb_trace[i].failures = 1
        /\ \A k \in i..Len(hb_trace) : hb_trace[k].status \in {"Late", "Critical"}

\* C13: the log is append-only and order-preserving: an append adds exactly
\* one entry, at the end, with the role and content of the call, whether or
\* not an identical (role, content) pair is already there, and leaves every
\* existing entry as it was.
C13_AppendOnlyInOrder ==
    [][(calls' = calls + 1 /\ call'.op = "add_to_chat_history")
         => /\ Len(chat_history') = Len(chat_history) + 1
            /\ SubSeq(chat_history', 1, Len(chat_history)) = chat_history
            /\ chat_history'[Len(chat_history')].role = call'.role
            /\ chat_history'[Len(chat_history')].content = call'.content]_vars

\* C13 witness: two appends of the same (role, content) pair, both kept.
C13_Witness ==
    /\ call.op = "add_to_chat_history"
    /\ Len(chat_history) = 2
    /\ chat_history[1].role = chat_history[2].role
    /\ chat_history[1].content = chat_history[2].content

\* C15: when the listing file is written and the metadata write then fails,
\* pulse_button returns the write-failure report naming the metadata file,
\* the listing it wrote stays in the directory, no other file is removed, no
\* metadata file is written, and open() is called exactly twice.
C15_SecondWriteFailureKeepsListing ==
    [][(PulseStep /\ call'.opens = <<TRUE, FALSE>>)
         => /\ result'.kind = "error"
            /\ result'.detail[1] = "metadata"
            /\ \E f \in files' :
                 /\ f.name[1] = "ERC721_ChatHistory"
                 /\ f.content.metadata_json.doc.chat_history = chat_history
                 /\ \A g \in files : g.name # f.name => g \in files'
            /\ \A g \in files' : g.name[1] = "metadata" => g \in files]_vars

\* C15 witness: a call whose second open() failed has returned the error
\* report and its listing is in the directory without a metadata file.
C15_Witness ==
    /\ call.op = "pulse_button"
    /\ call.opens = <<TRUE, FALSE>>
    /\ result.kind = "error"
    /\ \E f \in files : /\ f.name[1] = "ERC721_ChatHistory"
                        /\ f.content.metadata_json.doc.chat_history = chat_history
    /\ \A g \in files : g.name[1] # "metadata"

\* C16: after a successful pulse_button call the listing file name and the
\* metadata file name carry the same timestamp.
C16_FileNamesShareTimestamp ==
    result.kind = "success"
        => result.contract_filename[2] = result.metadata_filename[2]

\* C17: after a successful pulse_button call the metadata copy at the end of
\* the listing file equals the document in the metadata file of that call.
C17_ListingCopyEqualsMetadataFile ==
    (call.op = "pulse_button" /\ result.kind = "success")
        => FileContent(files, result.contract_filename).metadata_json
             = FileContent(files, result.metadata_filename)

\* C18: a successful pulse_button call that follows a successful call of the
\* same second uses the same two file names; and a successful call whose
\* file names are already in the directory adds no name, leaves one file
\* per name, and that file holds the content of this call.
C18_SameSecondOverwrites ==
    [][(PulseStep /\ result'.kind = "success")
         => /\ (/\ call.op = "pulse_button"
                /\ result.kind = "success"
                /\ result.contract_filename[2] = result'.contract_filename[2]
                /\ result.metadata_filename[2] = result'.metadata_filename[2])
                  => /\ result'.contract_filename = result.contract_filename
                     /\ result'.metadata_filename = result.metadata_filename
                     /\ call'.overwrote = {result'.contract_filename,
                                           result'.metadata_filename}
            /\ ({result'.contract_filename, result'.metadata_filename}
                    \subseteq FileNames(files))
                  => /\ FileNames(files') = FileNames(files)
                     /\ Cardinality(files') = Cardinality(FileNames(files'))
                     /\ FileContent(files', result'.contract_filename)
                            .metadata_json.doc.description
                          = IF call'.user_request = "" THEN DefaultDescription
                            ELSE call'.user_request
                     /\ FileContent(files', result'.metadata_filename).doc.description
                          = IF call'.user_request = "" THEN DefaultDescription
                            ELSE call'.user_request]_vars

\* C18 witness: a successful call has replaced both files of an earlier
\* successful call of the same second.
C18_Witness ==
    /\ call.op = "pulse_button"
    /\ result.kind = "success"
    /\ call.overwrote = {result.contract_filename, result.metadata_filename}
    /\ result.contract_filename[2] = result.metadata_filename[2]
    /\ Cardinality(files) = 2

\* C12: no mutation a caller performs on the value get_chat_history
\* returned (adding or removing an element, changing the role, content or
\* timestamp of a returned entry) changes the log.
C12_CallerMutationLeavesLog ==
    [][(/\ calls' = calls + 1
        /\ call'.op \in {"caller_append", "caller_remove", "caller_set"})
         => chat_history' = chat_history]_vars

\* the entries of the log that came from session s
OwnLog(history, s) ==
    SelectSeq(history, LAMBDA e : e.content \in {Prompt(s), Reply(s)})

\* C14: each log is owned by one session: a session's history view shows
\* only what that session wrote, and a clear issued in one session leaves
\* the entries of the other sessions in the log.
C14_SessionsIsolated ==
    [][/\ \A s \in Sessions :
            \A i \in 1..Len(session_messages'[s]) :
                session_messages'[s][i].content
                    \in {Prompt(s), Reply(s), ErrorMsg(s)}
       /\ \A s \in Sessions :
            (calls' = calls + 1 /\ call'.op = "ui_clear" /\ call'.session = s)
              => \A t \in Sessions \ {s} :
                    OwnLog(chat_history', t) = OwnLog(chat_history, t)]_vars

\* C22: pulse_button never changes the log: after any call, successful or
\* failed, the log holds the same entries in the same order as before.
C22_PulseLeavesLog ==
    [][PulseStep => chat_history' = chat_history]_vars

\* C22 witness: a successful emission of a non-empty log, which is still
\* there.
C22_Witness ==
    /\ call.op = "pulse_button"
    /\ result.kind = "success"
    /\ chat_history # << >>
    /\ FileContent(files, result.metadata_filename).doc.chat_history = chat_history

\* C23: the length of the log changes only by +1 in add_to_chat_history or
\* to 0 in clear_chat_history; after clear_chat_history the log is empty;
\* pulse_button on the empty log returns the empty-conversation warning and
\* writes nothing.
C23_LengthByOneOrToZero ==
    [][/\ Len(chat_history') # Len(chat_history)
            => /\ calls' = calls + 1
               /\ \/ /\ call'.op = "add_to_chat_history"
                     /\ Len(chat_history') = Len(chat_history) + 1
                  \/ /\ call'.op = "clear_chat_history"
                     /\ Len(chat_history') = 0
       /\ (calls' = calls + 1 /\ call'.op = "clear_chat_history")
            => chat_history' = << >>
       /\ (PulseStep /\ chat_history = << >>)
            => (result'.kind = "empty" /\ files' = files)]_vars

\* C23 witness: entries were appended (the clock was read), the log was
\* cleared, and pulse_button then returned the empty-conversation warning.
C23_Witness ==
    /\ call.op = "pulse_button"
    /\ result.kind = "empty"
    /\ chat_history = << >>
    /\ clock > 0
    /\ files = {}

\* C25: in the metadata of a successful emission, in the listing and in the
\* metadata file, user_messages is the subsequence of the entries with role
\* user and ai_responses the subsequence with role assistant, in log order;
\* total_messages is the number of entries; the per-role counts are the
\* lengths of the subsequences; the report carries the same counts.
C25_PartitionByRoleInOrder ==
    [][(PulseStep /\ result'.kind = "success")
         => \A doc \in {FileContent(files', result'.metadata_filename).doc,
                        FileContent(files', result'.contract_filename)
                            .metadata_json.doc} :
              /\ doc.chat_history = chat_history
              /\ doc.user_messages
                   = SelectSeq(chat_history, LAMBDA e : e.role = "user")
              /\ doc.ai_responses
                   = SelectSeq(chat_history, LAMBDA e : e.role = "assistant")
              /\ doc.summary.total_messages = Len(chat_history)
              /\ doc.summary.user_messages_count = Len(doc.user_messages)
              /\ doc.summary.ai_responses_count = Len(doc.ai_responses)
              /\ result'.total = doc.summary.total_messages
              /\ result'.users = doc.summary.user_messages_count
              /\ result'.ais = doc.summary.ai_responses_count]_vars

\* C25 witness: a successful emission of a log with entries of both roles.
C25_Witness ==
    /\ call.op = "pulse_button"
    /\ result.kind = "success"
    /\ Len(chat_history) = 2
    /\ result.users = 1
    /\ result.ais = 1
    /\ Len(FileContent(files, result.metadata_filename).doc.user_messages) = 1
    /\ Len(FileContent(files, result.metadata_filename).doc.ai_responses) = 1

\* C29: pulse_button on a non-empty log with a non-empty owner whose
\* normalized length is not 42 returns the malformed-identifier error,
\* opens no file and leaves the directory as it was.
C29_MalformedOwnerWritesNothing ==
    [][(/\ PulseStep
        /\ chat_history # << >>
        /\ EffectiveOwner(call'.owner_address) # EmptyStr
        /\ PayloadLength(EffectiveOwner(call'.owner_address)) + 2 # AddressLength)
         => /\ result'.kind = "config_error"
            /\ result'.msg = "invalid_format"
            /\ call'.opens = << >>
            /\ files' = files]_vars

\* C29 witness: a call with an owner one character too long was refused
\* with the directory holding the file of an earlier run, untouched.
C29_Witness ==
    /\ call.op = "pulse_button"
    /\ call.owner_address = LongOwner
    /\ chat_history # << >>
    /\ result.kind = "config_error"
    /\ files = {OldFile}

\* a timestamp is not later than another
IsoLeq(a, b) ==
    \/ a.second < b.second
    \/ a.second = b.second /\ a.fraction <= b.fraction

\* C28: the timestamps of the entries of the log are non-decreasing in log
\* order.
C28_TimestampsNonDecreasing ==
    \A i \in 1..(Len(chat_history) - 1) :
        IsoLeq(chat_history[i].timestamp, chat_history[i + 1].timestamp)

\* C26: the owner literal rendered for a validated identifier is "0x"
\* followed by 24 zero characters and the 40-character payload of the
\* identifier.
C26_OwnerLiteralIsPaddedPayload ==
    v_pc = "rendered"
        => /\ Len(v_hex) = 2 + PaddedHexLength
           /\ v_hex = Prefix0x \o Repeat("0", PaddedHexLength - 40)
                               \o PayloadOf(v_first.value)

\* C27: two compositions given the same entries, description, owner and
\* emission instant produce the same metadata document and the same
\* listing.
C27_CompositionIsPure ==
    (compose.pc = "twice" /\ compose.first[1].now = compose.second[1].now)
        => compose.first[1].out = compose.second[1].out

\* C24: between exchanges the log holds as many user entries as assistant
\* entries: every prompt logged has its reply logged after it, also when
\* the provider call fails.
C24_ExchangesBalanced ==
    CountRole(chat_history, "user") = CountRole(chat_history, "assistant")

\* C30: the generate button handler shows the success notice only when the
\* pulse_button call it made succeeded.
C30_SuccessNoticeOnlyOnSuccess ==
    (call.op = "ui_generate"
     /\ "success_contract_generated" \in notices[call.session])
        => result.kind = "success"

\* the two concurrent calls have returned
BothDone == \A t \in Threads : th[t].pc = "done"

\* both were classified late
BothLate == \A t \in Threads : th[t].status \in {"Late", "Critical"}

\* the state the two calls left and what they returned
RaceOutcome ==
    [last |-> last_pulse_time, failures |-> pulse_failures,
     status |-> [t \in Threads |-> th[t].status]]

\* the same for call a made, alone, before call b, from the state in which
\* the concurrent calls began
SerialOutcome(a, b) ==
    LET o1 == PulseOutcome(th[a].current_time, race_pre.last, race_pre.failures)
        o2 == PulseOutcome(th[b].current_time, o1.last, o1.failures)
    IN  [last |-> o2.last, failures |-> o2.failures,
         status |-> [t \in Threads |-> IF t = a THEN o1.status ELSE o2.status]]

SerialOutcomes == {SerialOutcome(1, 2), SerialOutcome(2, 1)}

\* C21: the heartbeat transition is not atomic.  When two concurrent calls
\* are both classified late, the counter ends one higher, not two, exactly
\* when both loaded it before either stored it (a lost increment), and that
\* outcome is the outcome of no serial order of the two calls; likewise
\* when both calls return Initialized.
C21_ConcurrentCallsNotSerializable ==
    /\ (BothDone /\ BothLate)
         => /\ pulse_failures
                 = race_pre.failures
                     + (IF th[1].loaded = th[2].loaded THEN 1 ELSE 2)
            /\ th[1].loaded = th[2].loaded => RaceOutcome \notin SerialOutcomes
    /\ (BothDone /\ \A t \in Threads : th[t].status = "Initialized")
         => RaceOutcome \notin SerialOutcomes

\* C21 witness: two concurrent late calls have returned, one increment is
\* lost, and no serial order of the two calls gives this outcome.
C21_Witness ==
    /\ BothDone
    /\ BothLate
    /\ th[1].loaded = th[2].loaded
    /\ pulse_failures = race_pre.failures + 1
    /\ RaceOutcome \notin SerialOutcomes

=============================================================================
